---- MODULE Spec2Model ----
(***************************************************************************)
(* The permission-resolution and caching engine of steve:                  *)
(*   pkg/accesscontrol/access_store.go  (AccessStore, latest revision)     *)
(*   pkg/accesscontrol/policy_rule_index.go (policyRuleIndex, found in     *)
(*   src/pkg/server/router/router.go from line 95 on)                      *)
(* and the router's blacklist middleware:                                   *)
(*   pkg/server/router/router.go (Routes, rejectIfBlackListed)             *)
(*                                                                         *)
(* Go strings that are hashed, compared or concatenated (object names,     *)
(* namespaces, UIDs, resource versions) are sequences of byte codes, so    *)
(* that concatenation and lexicographic comparison are the real ones.      *)
(* API groups, kinds, verbs and resources are only compared for equality   *)
(* and are TLA+ strings.                                                   *)
(***************************************************************************)
EXTENDS Integers, Sequences, FiniteSets, TLC

VARIABLES
    cacheOn,    \* NewAccessStore's cacheResults: l.cache # nil
    crbCache,   \* ClusterRoleBinding objects of the cluster
    rbCache,    \* RoleBinding objects of the cluster
    crCache,    \* ClusterRole objects of the cluster
    rCache,     \* Role objects of the cluster
    rv,         \* the cluster's resource version counter
    cache,      \* l.cache: the LRU cache, most recently used entry first
    mtx,        \* l.mtx: the caller holding it, or NoThread
    userKeys,   \* l.userKeys: identity name -> cache key
    pc,         \* per caller: its position in AccessFor
    user,       \* per caller: the user.Info argument
    cacheKey,   \* per caller: local cacheKey
    result,     \* per caller: local result
    prevKey,    \* per caller: local prevKey and ok of line 188
    startRV,    \* history, per caller: rv when the call was made
    entered,    \* history: identity name -> key of the call that locked mtx last
    recordedRV, \* history: identity name -> startRV of the call that wrote userKeys
    ret,        \* history: what the last completed call of the observed caller returned
    keyRet,     \* history: what the last direct call of CacheKey returned
    computed,   \* history: identity name -> key AccessFor computed last for it
    getRet,     \* history: what the last direct call of policyRuleIndex.get returned
    hashRet,    \* history: what the last direct call of addRolesToHash wrote
    request,    \* the request the router served last
    response,   \* what rejectIfBlackListed wrote to the ResponseWriter for it
    nextCalls,  \* how many times rejectIfBlackListed called next.ServeHTTP for it
    walk,       \* per caller: the reads of the stores its call has still to make
    nread,      \* per caller: the reads it has made at its position
    keyRV       \* history, per caller: rv when the call had computed its key

vars == <<cacheOn, crbCache, rbCache, crCache, rCache, rv, cache, mtx, userKeys,
          pc, user, cacheKey, result, prevKey, startRV, entered, recordedRV, ret,
          keyRet, computed, getRet, hashRet, request, response, nextCalls,
          walk, nread, keyRV>>

dataVars == <<crbCache, rbCache, crCache, rCache, rv>>
storeVars == <<cache, mtx, userKeys, entered, recordedRV>>
callVars == <<pc, user, cacheKey, result, prevKey, startRV, ret, walk, nread, keyRV>>
httpVars == <<request, response, nextCalls>>
obsVars == <<getRet, hashRet, httpVars>>

-----------------------------------------------------------------------------
(* Bounds of the model *)

MaxRV == 5          \* last resource version the cluster hands out
NumThreads == 2     \* concurrent callers of AccessFor
MaxBindings == 2    \* bindings in the cluster before the index lookups

(* Program constants *)

cacheSize == 50
makeLen == 0        \* make([]string, 0, len(groupBase)): the copy's length
rbacGroup == "rbac.authorization.k8s.io"
All == <<42>>       \* "*"
null == <<0>>       \* []byte{'\x00'}

-----------------------------------------------------------------------------
(* Byte strings *)

EmptyStr == <<>>
Str_a == <<97>>
Str_b == <<98>>
Str_c == <<99>>
Str_d == <<100>>
Str_g == <<103>>
Str_h == <<104>>
Str_n == <<110>>
Str_r == <<114>>
Str_s == <<115>>
Str_u == <<117>>
Str_v == <<118>>
Str_x == <<120>>
Str_1 == <<49>>
Str_r1 == <<114, 49>>
Str_colon == <<58>>
Str_serviceaccount == <<115, 101, 114, 118, 105, 99, 101, 97, 99, 99, 111, 117, 110, 116>>

Range(s) == { s[i] : i \in DOMAIN s }

Min(a, b) == IF a < b THEN a ELSE b

\* Go's < on strings: bytewise lexicographic
RECURSIVE StrLess(_, _)
StrLess(a, b) ==
    IF b = <<>> THEN FALSE
    ELSE IF a = <<>> THEN TRUE
    ELSE IF Head(a) # Head(b) THEN Head(a) < Head(b)
    ELSE StrLess(Tail(a), Tail(b))

\* strconv.Itoa, the decimal text of a resource version
RECURSIVE Itoa(_)
Itoa(n) == IF n < 10 THEN <<48 + n>> ELSE Itoa(n \div 10) \o <<48 + (n % 10)>>

\* sort.Slice(s, less) with less(x, y) == key[x] < key[y]: on a slice of
\* fewer than 12 elements it is an insertion sort, which leaves elements of
\* equal keys in the order they came in
RECURSIVE InsertSorted(_, _, _)
InsertSorted(x, s, key) ==
    IF s = <<>> THEN <<x>>
    ELSE IF ~StrLess(key[Head(s)], key[x]) THEN <<x>> \o s
    ELSE <<Head(s)>> \o InsertSorted(x, Tail(s), key)

RECURSIVE SortSlice(_, _)
SortSlice(s, key) ==
    IF s = <<>> THEN <<>>
    ELSE InsertSorted(Head(s), SortSlice(Tail(s), key), key)

\* sort.Strings
SortStrings(s) == SortSlice(s, [x \in Range(s) |-> x])

\* copy(dst, src) into a dst of length n: min(n, len(src)) elements
CopyInto(n, src) == SubSeq(src, 1, Min(n, Len(src)))

RECURSIVE Concat(_)
Concat(ss) == IF ss = <<>> THEN <<>> ELSE Head(ss) \o Concat(Tail(ss))

RECURSIVE Perms(_)
Perms(S) ==
    IF S = {} THEN { <<>> }
    ELSE UNION { { <<x>> \o p : p \in Perms(S \ {x}) } : x \in S }

-----------------------------------------------------------------------------
(* AccessSet: a set of grants (verb, group/resource, access) and an ID *)

NewAccessSet == [ID |-> EmptyStr, set |-> {}]

Add(as, verb, gr, access) ==
    [as EXCEPT !.set = @ \cup { [verb |-> verb, gr |-> gr, access |-> access] }]

Merge(as, other) == [as EXCEPT !.set = @ \cup other.set]

-----------------------------------------------------------------------------
(* roleRevisionIndex: the resource version last observed for a role, "" for
   a role that is not known *)

roleRevision(namespace, name) ==
    IF namespace = EmptyStr
    THEN IF \E cr \in crCache : cr.Name = name
         THEN (CHOOSE cr \in crCache : cr.Name = name).ResourceVersion
         ELSE EmptyStr
    ELSE IF \E r \in rCache : r.Namespace = namespace /\ r.Name = name
         THEN (CHOOSE r \in rCache : r.Namespace = namespace /\ r.Name = name).ResourceVersion
         ELSE EmptyStr

-----------------------------------------------------------------------------
(* policyRuleIndex; p is the index, p.kind its subject kind *)

newPolicyRuleIndex(isUser) == [kind |-> IF isUser THEN "User" ELSE "Group"]

users == newPolicyRuleIndex(TRUE)
groups == newPolicyRuleIndex(FALSE)

\* a lookup name for service accounts that leaves the namespace out
serviceAccountName_NoNamespace(subject) ==
    Str_serviceaccount \o Str_colon \o subject.Name

serviceAccountName(subject) ==
    Str_serviceaccount \o Str_colon \o subject.Namespace \o Str_colon \o subject.Name

clusterRoleBindingBySubjectIndexer(p, crb) ==
    LET keys(subject) ==
            IF subject.APIGroup = rbacGroup /\ subject.Kind = p.kind
               /\ crb.RoleRef.Kind = "ClusterRole"
            THEN << subject.Name >>
            ELSE IF subject.APIGroup = "" /\ p.kind = "User"
                    /\ subject.Kind = "ServiceAccount"
                    /\ subject.Namespace # EmptyStr
                    /\ crb.RoleRef.Kind = "ClusterRole"
            THEN << serviceAccountName(subject) >>
            ELSE <<>>
    IN Concat([i \in DOMAIN crb.Subjects |-> keys(crb.Subjects[i])])

\* roleBindingBySubject that does not look at the subject's kind
roleBindingBySubject_AnyKind(p, rb) ==
    LET keys(subject) ==
            IF subject.APIGroup = rbacGroup
            THEN << subject.Name >>
            ELSE IF subject.APIGroup = "" /\ p.kind = "User"
                    /\ subject.Kind = "ServiceAccount"
                    /\ subject.Namespace # EmptyStr
            THEN << serviceAccountName(subject) >>
            ELSE <<>>
    IN Concat([i \in DOMAIN rb.Subjects |-> keys(rb.Subjects[i])])

roleBindingBySubject(p, rb) ==
    LET keys(subject) ==
            IF subject.APIGroup = rbacGroup /\ subject.Kind = p.kind
            THEN << subject.Name >>
            ELSE IF subject.APIGroup = "" /\ p.kind = "User"
                    /\ subject.Kind = "ServiceAccount"
                    /\ subject.Namespace # EmptyStr
            THEN << serviceAccountName(subject) >>
            ELSE <<>>
    IN Concat([i \in DOMAIN rb.Subjects |-> keys(rb.Subjects[i])])

\* crbCache.GetByIndex / rbCache.GetByIndex: the objects indexed under key, in
\* the order the informer's store happens to list them (order: a permutation
\* of the cached objects)
crbGetByIndex(p, key, order) ==
    SelectSeq(order, LAMBDA crb : key \in Range(clusterRoleBindingBySubjectIndexer(p, crb)))

rbGetByIndex(p, key, order) ==
    SelectSeq(order, LAMBDA rb : key \in Range(roleBindingBySubject(p, rb)))

getClusterRoleBindings(p, subjectName, order) ==
    LET res == crbGetByIndex(p, subjectName, order)
    IN SortSlice(res, [crb \in Range(res) |-> crb.Name])

\* getRoleBindings without its sort
getRoleBindings_Unsorted(p, subjectName, order) == rbGetByIndex(p, subjectName, order)

getRoleBindings(p, subjectName, order) ==
    LET res == rbGetByIndex(p, subjectName, order)
    IN SortSlice(res, [rb \in Range(res) |-> rb.UID])

\* lines 173-182: the record of one cluster role binding and the bytes
\* written to the digest for it
crbRecord(crb) ==
    [binding |-> "ClusterRoleBinding", name |-> crb.RoleRef.Name, namespace |-> EmptyStr,
     revision |-> roleRevision(EmptyStr, crb.RoleRef.Name)]

\* crbBytes that leaves the revision out of the digest
crbBytes_NoRevision(crb) == crbRecord(crb).name \o null

crbBytes(crb) == crbRecord(crb).name \o crbRecord(crb).revision \o null

\* lines 185-210: the same for one role binding
rbRecord(rb) ==
    [binding |-> "RoleBinding", name |-> rb.RoleRef.Name, namespace |-> rb.Namespace,
     revision |-> IF rb.RoleRef.Kind = "ClusterRole"
                  THEN roleRevision(EmptyStr, rb.RoleRef.Name)
                  ELSE roleRevision(rb.Namespace, rb.RoleRef.Name)]

rbBytes(rb) == rbRecord(rb).name \o rbRecord(rb).namespace \o rbRecord(rb).revision \o null

\* order = [crb |-> ..., rb |-> ...]: the listing order of the two binding stores
addRolesToHash(p, digest, subjectName, order) ==
    LET crbs == getClusterRoleBindings(p, subjectName, order.crb)
        rbs == getRoleBindings(p, subjectName, order.rb)
    IN digest \o Concat([i \in DOMAIN crbs |-> crbBytes(crbs[i])])
              \o Concat([i \in DOMAIN rbs |-> rbBytes(rbs[i])])

\* getRules that looks up a reference of any other kind as a Role
getRules_OtherKindAsRole(namespace, roleRef) ==
    IF roleRef.Kind = "ClusterRole"
    THEN IF \E cr \in crCache : cr.Name = roleRef.Name
         THEN (CHOOSE cr \in crCache : cr.Name = roleRef.Name).Rules
         ELSE <<>>
    ELSE IF \E r \in rCache : r.Namespace = namespace /\ r.Name = roleRef.Name
         THEN (CHOOSE r \in rCache : r.Namespace = namespace /\ r.Name = roleRef.Name).Rules
         ELSE <<>>

getRules(namespace, roleRef) ==
    CASE roleRef.Kind = "ClusterRole" ->
            IF \E cr \in crCache : cr.Name = roleRef.Name
            THEN (CHOOSE cr \in crCache : cr.Name = roleRef.Name).Rules
            ELSE <<>>
      [] roleRef.Kind = "Role" ->
            IF \E r \in rCache : r.Namespace = namespace /\ r.Name = roleRef.Name
            THEN (CHOOSE r \in rCache : r.Namespace = namespace /\ r.Name = roleRef.Name).Rules
            ELSE <<>>
      [] OTHER -> <<>>

\* ruleEntries that takes a rule without resource names to name nothing
ruleEntries_NoWildcard(rule, namespace) ==
    LET names == rule.ResourceNames
    IN Concat([g \in DOMAIN rule.APIGroups |->
         Concat([r \in DOMAIN rule.Resources |->
           Concat([n \in DOMAIN names |->
             [v \in DOMAIN rule.Verbs |->
                [verb |-> rule.Verbs[v],
                 gr |-> [Group |-> rule.APIGroups[g], Resource |-> rule.Resources[r]],
                 access |-> [Namespace |-> namespace, ResourceName |-> names[n]]]]])])])

\* the (verb, group/resource, access) triples of one rule, in loop order
ruleEntries(rule, namespace) ==
    LET names == IF Len(rule.ResourceNames) = 0 THEN << All >> ELSE rule.ResourceNames
    IN Concat([g \in DOMAIN rule.APIGroups |->
         Concat([r \in DOMAIN rule.Resources |->
           Concat([n \in DOMAIN names |->
             [v \in DOMAIN rule.Verbs |->
                [verb |-> rule.Verbs[v],
                 gr |-> [Group |-> rule.APIGroups[g], Resource |-> rule.Resources[r]],
                 access |-> [Namespace |-> namespace, ResourceName |-> names[n]]]]])])])

RECURSIVE AddEach(_, _)
AddEach(accessSet, entries) ==
    IF entries = <<>> THEN accessSet
    ELSE AddEach(Add(accessSet, Head(entries).verb, Head(entries).gr, Head(entries).access),
                 Tail(entries))

addAccess(accessSet, namespace, roleRef) ==
    LET rules == getRules(namespace, roleRef)
    IN AddEach(accessSet, Concat([i \in DOMAIN rules |-> ruleEntries(rules[i], namespace)]))

RECURSIVE addAccessRoleBindings(_, _)
addAccessRoleBindings(accessSet, bindings) ==
    IF bindings = <<>> THEN accessSet
    ELSE addAccessRoleBindings(
            addAccess(accessSet, Head(bindings).Namespace, Head(bindings).RoleRef),
            Tail(bindings))

RECURSIVE addAccessClusterRoleBindings(_, _)
addAccessClusterRoleBindings(accessSet, bindings) ==
    IF bindings = <<>> THEN accessSet
    ELSE addAccessClusterRoleBindings(
            addAccess(accessSet, All, Head(bindings).RoleRef), Tail(bindings))

get(p, subjectName, order) ==
    addAccessClusterRoleBindings(
        addAccessRoleBindings(NewAccessSet, getRoleBindings(p, subjectName, order.rb)),
        getClusterRoleBindings(p, subjectName, order.crb))

-----------------------------------------------------------------------------
(* AccessStore *)

\* hex.EncodeToString(d.Sum(nil)) of the bytes written to the digest: SHA-256
\* is taken to be collision free, so the key stands for the bytes written
\* (tagged, as the digest of no bytes is not the empty string)
Sum(d) == <<-1>> \o d

RECURSIVE hashGroups(_, _, _)
hashGroups(digest, groupList, order) ==
    IF groupList = <<>> THEN digest
    ELSE hashGroups(addRolesToHash(groups, digest, Head(groupList), order),
                    Tail(groupList), order)

CacheKey(userInfo, order) ==
    LET d == addRolesToHash(users, <<>>, userInfo.name, order)
        groupBase == userInfo.groups
        sorted == SortStrings(CopyInto(makeLen, groupBase))
    IN Sum(hashGroups(d, userInfo.groups, order))

RECURSIVE mergeGroups(_, _, _)
mergeGroups(res, groupList, order) ==
    IF groupList = <<>> THEN res
    ELSE mergeGroups(Merge(res, get(groups, Head(groupList), order)),
                     Tail(groupList), order)

\* lines 179-182: the resolution of an identity
resolve(userInfo, order) ==
    mergeGroups(get(users, userInfo.name, order), userInfo.groups, order)

\* k8s.io/apimachinery LRUExpireCache, as used at lines 172, 189 and 192; the
\* 24 hour expiry of an entry is outside the time span of the modelled calls
LRUHas(c, k) == \E i \in DOMAIN c : c[i].key = k

LRUValue(c, k) == c[CHOOSE i \in DOMAIN c : c[i].key = k].value

LRUGet(c, k) ==
    IF LRUHas(c, k)
    THEN << [key |-> k, value |-> LRUValue(c, k)] >> \o SelectSeq(c, LAMBDA e : e.key # k)
    ELSE c

LRURemove(c, k) == SelectSeq(c, LAMBDA e : e.key # k)

LRUAdd(c, k, val) ==
    LET new == << [key |-> k, value |-> val] >> \o SelectSeq(c, LAMBDA e : e.key # k)
    IN IF Len(new) > cacheSize THEN SubSeq(new, 1, cacheSize) ELSE new

\* the cache holds values of any type (interface{}); IsAccessSet tells whether
\* one is an *AccessSet
IsAccessSet(val) == DOMAIN val = {"ID", "set"}

\* the nil *AccessSet
Nil == [nil |-> TRUE]

\* line 174: as, _ := val.(*AccessSet): the zero value when the type differs
TypeAssert(val) == IF IsAccessSet(val) THEN val ELSE Nil

\* the key-to-value contents of the cache, without the recency order
CacheContents(c) == { <<c[i].key, c[i].value>> : i \in DOMAIN c }

-----------------------------------------------------------------------------
(* The cluster objects and the identities the model draws from *)

Subject(kind, name) ==
    [APIGroup |-> rbacGroup, Kind |-> kind, Name |-> name, Namespace |-> EmptyStr]

RoleRef(kind, name) == [Kind |-> kind, Name |-> name]

ClusterRoleBinding(name, roleRef, subjects) ==
    [Name |-> name, RoleRef |-> roleRef, Subjects |-> subjects]

RoleBinding(namespace, name, uid, roleRef, subjects) ==
    [Namespace |-> namespace, Name |-> name, UID |-> uid, RoleRef |-> roleRef,
     Subjects |-> subjects]

PolicyRule(apiGroups, resources, resourceNames, verbs) ==
    [APIGroups |-> apiGroups, Resources |-> resources,
     ResourceNames |-> resourceNames, Verbs |-> verbs]

\* the bindings the concurrent callers' cluster draws from
SharedCRBs ==
    { ClusterRoleBinding(Str_a, RoleRef("ClusterRole", Str_r), << Subject("Group", Str_g) >>),
      ClusterRoleBinding(Str_b, RoleRef("ClusterRole", Str_s), << Subject("Group", Str_h) >>) }

CRBUniverse ==
    { ClusterRoleBinding(Str_a, RoleRef("ClusterRole", Str_r), << Subject("Group", Str_g) >>),
      ClusterRoleBinding(Str_b, RoleRef("ClusterRole", Str_s), << Subject("Group", Str_h) >>),
      ClusterRoleBinding(Str_c, RoleRef("ClusterRole", Str_s), << Subject("Group", Str_g) >>) }

RBUniverse ==
    { RoleBinding(Str_n, Str_d, Itoa(2), RoleRef("Role", Str_r), << Subject("User", Str_u) >>),
      RoleBinding(Str_n, Str_c, Itoa(1), RoleRef("ClusterRole", Str_s), << Subject("User", Str_u) >>) }

\* a subject of kind ServiceAccount: its API group is empty
ServiceAccount(namespace, name) ==
    [APIGroup |-> "", Kind |-> "ServiceAccount", Name |-> name, Namespace |-> namespace]

\* subjects that no index should take: a User outside the RBAC group, a
\* ServiceAccount inside it, a ServiceAccount without a namespace
StraySubjects ==
    << [APIGroup |-> "", Kind |-> "User", Name |-> Str_u, Namespace |-> EmptyStr],
       [APIGroup |-> rbacGroup, Kind |-> "ServiceAccount", Name |-> Str_a, Namespace |-> Str_n],
       ServiceAccount(EmptyStr, Str_a) >>

\* the bindings the index lookups draw from: every kind of subject, role
\* references that resolve, that dangle (no role d exists) and of a kind that
\* is neither Role nor ClusterRole
IndexCRBs ==
    { ClusterRoleBinding(Str_a, RoleRef("ClusterRole", Str_r), << Subject("Group", Str_g) >>),
      ClusterRoleBinding(Str_b, RoleRef("ClusterRole", Str_r), << ServiceAccount(Str_n, Str_a) >>),
      ClusterRoleBinding(Str_c, RoleRef("Role", Str_r), << Subject("User", Str_u) >>),
      ClusterRoleBinding(Str_d, RoleRef("ClusterRole", Str_d), << Subject("User", Str_u) >>),
      ClusterRoleBinding(Str_g, RoleRef("ClusterRole", Str_s), << Subject("Group", Str_u) >>),
      ClusterRoleBinding(Str_h, RoleRef("Role", Str_r), << ServiceAccount(Str_n, Str_a) >>) }

IndexRBs ==
    { RoleBinding(Str_n, Str_a, Itoa(1), RoleRef("Role", Str_r), << Subject("User", Str_u) >>),
      RoleBinding(Str_n, Str_b, Itoa(2), RoleRef("ClusterRole", Str_s), << Subject("User", Str_u) >>),
      RoleBinding(Str_n, Str_c, Itoa(3), RoleRef("Role", Str_d), << Subject("User", Str_u) >>),
      RoleBinding(Str_n, Str_d, Itoa(4), RoleRef("ClusterRole", Str_s),
                  << ServiceAccount(Str_n, Str_a) >>),
      RoleBinding(Str_n, Str_g, Itoa(5), RoleRef("Role", Str_r), << Subject("Group", Str_u) >>),
      RoleBinding(Str_n, Str_h, Itoa(6), RoleRef("Other", Str_r), << Subject("User", Str_u) >>),
      RoleBinding(Str_n, Str_x, Itoa(7), RoleRef("ClusterRole", Str_r), StraySubjects) }

\* the bindings the digest is computed over: cluster role bindings to the
\* ClusterRole r and to a ClusterRole r1 that does not exist, and a role
\* binding in the namespace 1 to a Role r that does not exist
DigestCRBs ==
    { ClusterRoleBinding(Str_a, RoleRef("ClusterRole", Str_r), << Subject("Group", Str_g) >>),
      ClusterRoleBinding(Str_b, RoleRef("ClusterRole", Str_r1), << Subject("Group", Str_g) >>),
      ClusterRoleBinding(Str_c, RoleRef("ClusterRole", Str_r1), << Subject("Group", Str_h) >>) }

DigestRBs ==
    { RoleBinding(Str_1, Str_d, Itoa(1), RoleRef("Role", Str_r), << Subject("Group", Str_h) >>) }

\* the subject names looked up in the indexes
LookupNames ==
    { Str_u, Str_g, Str_a, Str_n,
      Str_serviceaccount \o Str_colon \o Str_n \o Str_colon \o Str_a }

RulesA == << PolicyRule(<< "" >>, << "pods" >>, <<>>, << "get" >>) >>
RulesB == << PolicyRule(<< "" >>, << "configmaps" >>, << Str_x >>, << "get", "update" >>) >>
RuleLists == { RulesA, RulesB }

ClusterRoleNames == { Str_r, Str_s }
RoleKeys == { [Namespace |-> Str_n, Name |-> Str_r], [Namespace |-> Str_n, Name |-> Str_s] }

UserInfo(name, groupList) == [name |-> name, groups |-> groupList]

\* user.Info values: GetGroups() lists an identity's groups in no fixed order
UserInfos ==
    { UserInfo(Str_u, << Str_g, Str_h >>), UserInfo(Str_u, << Str_h, Str_g >>),
      UserInfo(Str_v, << Str_g >>) }

\* the identities of the concurrent callers
SharedUserInfos == { UserInfo(Str_u, << Str_g, Str_h >>), UserInfo(Str_v, << Str_g >>) }

Threads == 1 .. NumThreads
NoThread == 0
\* the caller whose return values ret records
Observed == CHOOSE t \in Threads : \A other \in Threads : t <= other

\* the orders in which the binding stores may list their objects: a store
\* lists in no fixed order (GetByIndex ranges over a Go map)
Listings(S) == Perms(S)

IndexOrders == { [crb |-> co, rb |-> ro] : co \in Listings(crbCache), ro \in Listings(rbCache) }

NoUser == UserInfo(EmptyStr, <<>>)
NoPrev == [ok |-> FALSE, key |-> EmptyStr]
NoKeyRet ==
    [user |-> NoUser, key |-> EmptyStr, startRV |-> 0, rv |-> 0, crbs |-> {}, rbs |-> {},
     revs |-> <<>>]
NoRet == [name |-> EmptyStr, as |-> NewAccessSet, startRV |-> 0, endRV |-> 0]
NoGetRet ==
    [kind |-> "", name |-> EmptyStr, as |-> NewAccessSet, crbs |-> <<>>, rbs |-> <<>>,
     startRV |-> 0, endRV |-> 0]
NoHashRet == [kind |-> "", name |-> EmptyStr, digest |-> <<>>, records |-> <<>>]
\* a caller with no reads to make
NoSubject == [kind |-> "", name |-> EmptyStr]
NoWalk ==
    [todo |-> <<>>, digest |-> <<>>, records |-> <<>>, sub |-> NewAccessSet,
     subject |-> NoSubject]
NoRequest == [Method |-> "", Path |-> <<>>]
NoResponse == [status |-> 0, body |-> ""]

MapPut(m, k, val) == [x \in DOMAIN m \cup {k} |-> IF x = k THEN val ELSE m[x]]

-----------------------------------------------------------------------------
(* NewAccessStore, over a cluster that already holds roles and bindings *)

\* the Role objects a cluster may hold when the store is made
InitialRoles ==
    { [Namespace |-> Str_n, Name |-> Str_r, Rules |-> RulesA, ResourceVersion |-> Itoa(3)] }

\* the store and its callers before the first call
InitCallers ==
    /\ cache = <<>>
    /\ mtx = NoThread
    /\ userKeys = <<>>
    /\ entered = <<>>
    /\ recordedRV = <<>>
    /\ pc = [t \in Threads |-> "idle"]
    /\ user = [t \in Threads |-> NoUser]
    /\ cacheKey = [t \in Threads |-> EmptyStr]
    /\ result = [t \in Threads |-> NewAccessSet]
    /\ prevKey = [t \in Threads |-> NoPrev]
    /\ startRV = [t \in Threads |-> 0]
    /\ keyRV = [t \in Threads |-> 0]
    /\ walk = [t \in Threads |-> NoWalk]
    /\ nread = [t \in Threads |-> 0]
    /\ ret = NoRet
    /\ keyRet = NoKeyRet
    /\ computed = <<>>
    /\ getRet = NoGetRet
    /\ hashRet = NoHashRet
    /\ request = NoRequest
    /\ response = NoResponse
    /\ nextCalls = 0

\* the cluster roles of every cluster; the cluster's last change had version 4
InitStore ==
    /\ crCache = { [Name |-> Str_r, Rules |-> RulesA, ResourceVersion |-> Itoa(1)],
                   [Name |-> Str_s, Rules |-> RulesB, ResourceVersion |-> Itoa(2)] }
    /\ rv = 4
    /\ InitCallers

\* a cluster with the one ClusterRole r, two changes before the last version
InitDigest ==
    /\ cacheOn = FALSE
    /\ crbCache \in SUBSET DigestCRBs
    /\ rbCache \in SUBSET DigestRBs
    /\ crCache = { [Name |-> Str_r, Rules |-> RulesA, ResourceVersion |-> Itoa(1)] }
    /\ rCache = {}
    /\ rv = MaxRV - 2
    /\ InitCallers

Init ==
    /\ cacheOn \in BOOLEAN
    /\ crbCache \in SUBSET SharedCRBs
    /\ rbCache = {}
    /\ rCache = {}
    /\ InitStore

\* a cluster of at most MaxBindings bindings whose last change was the Role's
InitIndex ==
    /\ cacheOn = FALSE
    /\ crbCache \in SUBSET IndexCRBs
    /\ rbCache \in SUBSET IndexRBs
    /\ Cardinality(crbCache) + Cardinality(rbCache) <= MaxBindings
    /\ rCache = InitialRoles
    /\ crCache = { [Name |-> Str_r, Rules |-> RulesA, ResourceVersion |-> Itoa(1)],
                   [Name |-> Str_s, Rules |-> RulesB, ResourceVersion |-> Itoa(2)] }
    /\ rv = 3
    /\ InitCallers

InitCluster ==
    /\ cacheOn = FALSE
    /\ crbCache \in SUBSET CRBUniverse
    /\ rbCache \in SUBSET RBUniverse
    /\ rCache \in SUBSET InitialRoles
    /\ InitStore

-----------------------------------------------------------------------------
(* The reads of the informer stores.  CacheKey and the resolution read the  *)
(* stores one lookup at a time and one role at a time; the cluster may      *)
(* change between two reads.  A call keeps the reads it still has to make   *)
(* (todo), the bytes written to its digest, the records they stand for, and *)
(* the AccessSet the current get is building (sub).                         *)

NoBinding == <<>>

\* a lookup in an index: getClusterRoleBindings ("crbs") or getRoleBindings ("rbs")
Lookup(op, p, subjectName) ==
    [op |-> op, kind |-> p.kind, name |-> subjectName, binding |-> NoBinding]

\* the loop body for each binding a lookup returned: one read of its role
BindingReads(op, bindings) ==
    [i \in DOMAIN bindings |->
       [op |-> op, kind |-> "", name |-> EmptyStr, binding |-> bindings[i]]]

\* the return of a get: the identity's own AccessSet is the result ("first"),
\* a group's is merged into it ("merge")
EndOfGet(op) == [op |-> op, kind |-> "", name |-> EmptyStr, binding |-> NoBinding]

\* addRolesToHash(subject): the cluster role bindings, then the role bindings
HashReads(p, subjectName) == << Lookup("crbs", p, subjectName), Lookup("rbs", p, subjectName) >>

\* get(subject): the role bindings, then the cluster role bindings
GetReads(p, subjectName) == << Lookup("rbs", p, subjectName), Lookup("crbs", p, subjectName) >>

\* CacheKey: the identity, then its groups as GetGroups() lists them
CacheKeyReads(userInfo) ==
    HashReads(users, userInfo.name)
    \o Concat([i \in DOMAIN userInfo.groups |-> HashReads(groups, userInfo.groups[i])])

\* a resolution that forgets the groups
ResolveReads_UserOnly(userInfo) == GetReads(users, userInfo.name) \o << EndOfGet("first") >>

\* lines 179-182
ResolveReads(userInfo) ==
    GetReads(users, userInfo.name) \o << EndOfGet("first") >>
    \o Concat([i \in DOMAIN userInfo.groups |->
                 GetReads(groups, userInfo.groups[i]) \o << EndOfGet("merge") >>])

WalkOf(reads) == [NoWalk EXCEPT !.todo = reads]

\* the next read of addRolesToHash: a lookup puts the bindings it returned
\* before the reads that remain, a binding gets its role's revision read and
\* its bytes written
HashStep(w, order) ==
    LET item == Head(w.todo)
        rest == Tail(w.todo)
        p == [kind |-> item.kind]
    IN CASE item.op = "crbs" ->
              [w EXCEPT !.todo = BindingReads("crb",
                                   getClusterRoleBindings(p, item.name, order.crb)) \o rest]
         [] item.op = "rbs" ->
              [w EXCEPT !.todo = BindingReads("rb",
                                   getRoleBindings(p, item.name, order.rb)) \o rest]
         [] item.op = "crb" ->
              [w EXCEPT !.todo = rest,
                        !.digest = @ \o crbBytes(item.binding),
                        !.records = Append(@, crbRecord(item.binding))]
         [] item.op = "rb" ->
              [w EXCEPT !.todo = rest,
                        !.digest = @ \o rbBytes(item.binding),
                        !.records = Append(@, rbRecord(item.binding))]

\* the next read of get: a lookup, or addAccess for one binding
GetStep(w, order) ==
    LET item == Head(w.todo)
        rest == Tail(w.todo)
        p == [kind |-> item.kind]
    IN CASE item.op = "rbs" ->
              [w EXCEPT !.todo = BindingReads("rb",
                                   getRoleBindings(p, item.name, order.rb)) \o rest]
         [] item.op = "crbs" ->
              [w EXCEPT !.todo = BindingReads("crb",
                                   getClusterRoleBindings(p, item.name, order.crb)) \o rest]
         [] item.op = "rb" ->
              [w EXCEPT !.todo = rest,
                        !.sub = addAccess(@, item.binding.Namespace, item.binding.RoleRef)]
         [] item.op = "crb" ->
              [w EXCEPT !.todo = rest,
                        !.sub = addAccess(@, All, item.binding.RoleRef)]

\* Settle with a merge that replaces: only the last get's grants are kept
RECURSIVE Settle_LastOnly(_, _)
Settle_LastOnly(w, res) ==
    IF w.todo # <<>> /\ Head(w.todo).op \in {"first", "merge"}
    THEN Settle_LastOnly([w EXCEPT !.todo = Tail(@), !.sub = NewAccessSet], w.sub)
    ELSE [walk |-> w, result |-> res]

\* what follows a read without another read: a get that has made all its
\* reads returns, and its AccessSet becomes the result or is merged into it
RECURSIVE Settle(_, _)
Settle(w, res) ==
    IF w.todo # <<>> /\ Head(w.todo).op \in {"first", "merge"}
    THEN Settle([w EXCEPT !.todo = Tail(@), !.sub = NewAccessSet],
                IF Head(w.todo).op = "first" THEN w.sub ELSE Merge(res, w.sub))
    ELSE [walk |-> w, result |-> res]

ResolveStep(w, res, order) == Settle(GetStep(w, order), res)

-----------------------------------------------------------------------------
(* AccessFor, one step per access to shared state *)

\* the caller is idle again
Idle(t) ==
    /\ pc' = [pc EXCEPT ![t] = "idle"]
    /\ user' = [user EXCEPT ![t] = NoUser]
    /\ cacheKey' = [cacheKey EXCEPT ![t] = EmptyStr]
    /\ result' = [result EXCEPT ![t] = NewAccessSet]
    /\ prevKey' = [prevKey EXCEPT ![t] = NoPrev]
    /\ startRV' = [startRV EXCEPT ![t] = 0]
    /\ keyRV' = [keyRV EXCEPT ![t] = 0]
    /\ walk' = [walk EXCEPT ![t] = NoWalk]
    /\ nread' = [nread EXCEPT ![t] = 0]

\* return as: the observed caller's value is recorded
Returned(t, as) ==
    /\ ret' = IF t = Observed
              THEN [name |-> user[t].name, as |-> as, startRV |-> startRV[t], endRV |-> rv]
              ELSE ret
    /\ Idle(t)

\* line 168: the call; with a cache it goes on to compute the key, without
\* one to resolve
AccessForCall(t, userInfo) ==
    /\ pc[t] = "idle"
    /\ user' = [user EXCEPT ![t] = userInfo]
    /\ startRV' = [startRV EXCEPT ![t] = rv]
    /\ pc' = [pc EXCEPT ![t] = IF cacheOn THEN "key" ELSE "resolve"]
    /\ walk' = [walk EXCEPT ![t] = WalkOf(IF cacheOn THEN CacheKeyReads(userInfo)
                                          ELSE ResolveReads(userInfo))]
    /\ UNCHANGED <<cacheOn, keyRet, obsVars, computed, dataVars, storeVars, cacheKey, result,
                   prevKey, ret, keyRV, nread>>

\* line 171: one read of CacheKey; after the last one the key is the digest
AccessForCacheKey(t, order) ==
    /\ pc[t] = "key"
    /\ LET w == HashStep(walk[t], order)
       IN IF w.todo # <<>>
          THEN /\ walk' = [walk EXCEPT ![t] = w]
               /\ nread' = [nread EXCEPT ![t] = @ + 1]
               /\ UNCHANGED <<pc, cacheKey, computed, keyRV>>
          ELSE /\ walk' = [walk EXCEPT ![t] = NoWalk]
               /\ nread' = [nread EXCEPT ![t] = 0]
               /\ cacheKey' = [cacheKey EXCEPT ![t] = Sum(w.digest)]
               /\ computed' = MapPut(computed, user[t].name, Sum(w.digest))
               /\ keyRV' = [keyRV EXCEPT ![t] = rv]
               /\ pc' = [pc EXCEPT ![t] = "get"]
    /\ UNCHANGED <<cacheOn, keyRet, obsVars, dataVars, storeVars, user, result, prevKey,
                   startRV, ret>>

\* AccessForGet that also records the key of a hit in userKeys
AccessForGet_RecordsHit(t) ==
    /\ pc[t] = "get"
    /\ IF LRUHas(cache, cacheKey[t])
       THEN /\ cache' = LRUGet(cache, cacheKey[t])
            /\ userKeys' = MapPut(userKeys, user[t].name, cacheKey[t])
            /\ Returned(t, TypeAssert(LRUValue(cache, cacheKey[t])))
       ELSE /\ pc' = [pc EXCEPT ![t] = "resolve"]
            /\ walk' = [walk EXCEPT ![t] = WalkOf(ResolveReads(user[t]))]
            /\ UNCHANGED <<cache, userKeys, user, cacheKey, result, prevKey, startRV, ret,
                           keyRV, nread>>
    /\ UNCHANGED <<cacheOn, keyRet, obsVars, computed, dataVars, mtx, entered, recordedRV>>

\* lines 172-176: a hit returns the cached value, asserted to be an AccessSet
AccessForGet(t) ==
    /\ pc[t] = "get"
    /\ IF LRUHas(cache, cacheKey[t])
       THEN /\ cache' = LRUGet(cache, cacheKey[t])
            /\ Returned(t, TypeAssert(LRUValue(cache, cacheKey[t])))
       ELSE /\ pc' = [pc EXCEPT ![t] = "resolve"]
            /\ walk' = [walk EXCEPT ![t] = WalkOf(ResolveReads(user[t]))]
            /\ UNCHANGED <<cache, user, cacheKey, result, prevKey, startRV, ret, keyRV, nread>>
    /\ UNCHANGED <<cacheOn, keyRet, obsVars, computed,
                   dataVars, mtx, userKeys, entered, recordedRV>>

\* AccessForResolve that leaves the ID to be stamped later
AccessForResolve_NoStamp(t, order) ==
    /\ pc[t] = "resolve"
    /\ LET s == ResolveStep(walk[t], result[t], order)
       IN IF s.walk.todo # <<>>
          THEN /\ walk' = [walk EXCEPT ![t] = s.walk]
               /\ result' = [result EXCEPT ![t] = s.result]
               /\ nread' = [nread EXCEPT ![t] = @ + 1]
               /\ UNCHANGED <<pc, user, cacheKey, prevKey, startRV, ret, keyRV>>
          ELSE IF cacheOn
          THEN /\ walk' = [walk EXCEPT ![t] = NoWalk]
               /\ result' = [result EXCEPT ![t] = s.result]
               /\ nread' = [nread EXCEPT ![t] = 0]
               /\ pc' = [pc EXCEPT ![t] = "lock"]
               /\ UNCHANGED <<user, cacheKey, prevKey, startRV, ret, keyRV>>
          ELSE Returned(t, s.result)
    /\ UNCHANGED <<cacheOn, keyRet, obsVars, computed, dataVars, storeVars>>

\* lines 179-185 and, without a cache, 195: one read of the resolution; after
\* the last one the result is stamped with the key, or returned
AccessForResolve(t, order) ==
    /\ pc[t] = "resolve"
    /\ LET s == ResolveStep(walk[t], result[t], order)
       IN IF s.walk.todo # <<>>
          THEN /\ walk' = [walk EXCEPT ![t] = s.walk]
               /\ result' = [result EXCEPT ![t] = s.result]
               /\ nread' = [nread EXCEPT ![t] = @ + 1]
               /\ UNCHANGED <<pc, user, cacheKey, prevKey, startRV, ret, keyRV>>
          ELSE IF cacheOn
          THEN /\ walk' = [walk EXCEPT ![t] = NoWalk]
               /\ result' = [result EXCEPT ![t] = [s.result EXCEPT !.ID = cacheKey[t]]]
               /\ nread' = [nread EXCEPT ![t] = 0]
               /\ pc' = [pc EXCEPT ![t] = "lock"]
               /\ UNCHANGED <<user, cacheKey, prevKey, startRV, ret, keyRV>>
          ELSE Returned(t, s.result)
    /\ UNCHANGED <<cacheOn, keyRet, obsVars, computed, dataVars, storeVars>>

\* line 186
AccessForLock(t) ==
    /\ pc[t] = "lock"
    /\ mtx = NoThread
    /\ mtx' = t
    /\ entered' = MapPut(entered, user[t].name, cacheKey[t])
    /\ pc' = [pc EXCEPT ![t] = "evict"]
    /\ UNCHANGED <<cacheOn, keyRet, obsVars, computed,
                   dataVars, cache, userKeys, recordedRV, user, cacheKey, result,
                   prevKey, startRV, ret, keyRV, walk, nread>>

\* lines 188-191: evict the key recorded for the identity, record the new one
AccessForEvict(t) ==
    /\ pc[t] = "evict"
    /\ LET ok == user[t].name \in DOMAIN userKeys
           prev == IF ok THEN userKeys[user[t].name] ELSE EmptyStr
       IN /\ prevKey' = [prevKey EXCEPT ![t] = [ok |-> ok, key |-> prev]]
          /\ cache' = IF ok /\ prev # cacheKey[t] THEN LRURemove(cache, prev) ELSE cache
    /\ userKeys' = MapPut(userKeys, user[t].name, cacheKey[t])
    /\ recordedRV' = MapPut(recordedRV, user[t].name, startRV[t])
    /\ pc' = [pc EXCEPT ![t] = "add"]
    /\ UNCHANGED <<cacheOn, keyRet, obsVars, computed,
                   dataVars, mtx, entered, user, cacheKey, result, startRV, ret,
                   keyRV, walk, nread>>

\* AccessForAdd without the deferred Unlock
AccessForAdd_KeepsLock(t) ==
    /\ pc[t] = "add"
    /\ cache' = LRUAdd(cache, cacheKey[t], result[t])
    /\ Returned(t, result[t])
    /\ UNCHANGED <<cacheOn, keyRet, obsVars, computed, dataVars, mtx, userKeys, entered,
                   recordedRV>>

\* lines 192-195 and 187: add to the cache, return, the deferred Unlock runs
AccessForAdd(t) ==
    /\ pc[t] = "add"
    /\ cache' = LRUAdd(cache, cacheKey[t], result[t])
    /\ mtx' = NoThread
    /\ Returned(t, result[t])
    /\ UNCHANGED <<cacheOn, keyRet, obsVars, computed, dataVars, userKeys, entered, recordedRV>>

\* the bindings the indexes return for an identity or one of its groups
MatchingCRBs(userInfo) ==
    { crb \in crbCache :
        \/ userInfo.name \in Range(clusterRoleBindingBySubjectIndexer(users, crb))
        \/ \E g \in Range(userInfo.groups) :
              g \in Range(clusterRoleBindingBySubjectIndexer(groups, crb)) }

MatchingRBs(userInfo) ==
    { rb \in rbCache :
        \/ userInfo.name \in Range(roleBindingBySubject(users, rb))
        \/ \E g \in Range(userInfo.groups) : g \in Range(roleBindingBySubject(groups, rb)) }

\* the (namespace, name) of the roles those bindings reference
ReferencedRoles(userInfo) ==
    { <<EmptyStr, crb.RoleRef.Name>> : crb \in MatchingCRBs(userInfo) }
    \cup { IF rb.RoleRef.Kind = "ClusterRole" THEN <<EmptyStr, rb.RoleRef.Name>>
           ELSE <<rb.Namespace, rb.RoleRef.Name>> : rb \in MatchingRBs(userInfo) }

\* the revision of every role those bindings reference
RoleRevisions(userInfo) ==
    [k \in ReferencedRoles(userInfo) |-> roleRevision(k[1], k[2])]

\* lines 198-213, called on its own: CacheKey is exported
CacheKeyCall(t, userInfo) ==
    /\ pc[t] = "idle"
    /\ user' = [user EXCEPT ![t] = userInfo]
    /\ startRV' = [startRV EXCEPT ![t] = rv]
    /\ pc' = [pc EXCEPT ![t] = "cachekey"]
    /\ walk' = [walk EXCEPT ![t] = WalkOf(CacheKeyReads(userInfo))]
    /\ UNCHANGED <<cacheOn, keyRet, obsVars, computed, dataVars, storeVars, cacheKey, result,
                   prevKey, ret, keyRV, nread>>

\* one read of that call; the last one returns the key, recorded with the
\* resource versions at the call and at the return and with the bindings and
\* revisions of the identity at the return
CacheKeyRead(t, order) ==
    /\ pc[t] = "cachekey"
    /\ LET w == HashStep(walk[t], order)
       IN IF w.todo # <<>>
          THEN /\ walk' = [walk EXCEPT ![t] = w]
               /\ nread' = [nread EXCEPT ![t] = @ + 1]
               /\ UNCHANGED <<keyRet, pc, user, cacheKey, result, prevKey, startRV, keyRV>>
          ELSE /\ keyRet' = [user |-> user[t], key |-> Sum(w.digest),
                             startRV |-> startRV[t], rv |-> rv,
                             crbs |-> MatchingCRBs(user[t]), rbs |-> MatchingRBs(user[t]),
                             revs |-> RoleRevisions(user[t])]
               /\ Idle(t)
    /\ UNCHANGED <<cacheOn, obsVars, computed, dataVars, storeVars, ret>>

\* the bound-role records addRolesToHash writes for a subject: the fields of
\* each digest.Write group of lines 172-182 and 185-210
Records(p, subjectName, order) ==
    LET crbs == getClusterRoleBindings(p, subjectName, order.crb)
        rbs == getRoleBindings(p, subjectName, order.rb)
    IN [i \in DOMAIN crbs |-> crbRecord(crbs[i])] \o [i \in DOMAIN rbs |-> rbRecord(rbs[i])]

\* lines 171-213, called on its own with a new digest
AddRolesToHashCall(t, p, subjectName) ==
    /\ pc[t] = "idle"
    /\ startRV' = [startRV EXCEPT ![t] = rv]
    /\ pc' = [pc EXCEPT ![t] = "hash"]
    /\ walk' = [walk EXCEPT ![t] =
                  [WalkOf(HashReads(p, subjectName))
                     EXCEPT !.subject = [kind |-> p.kind, name |-> subjectName]]]
    /\ UNCHANGED <<cacheOn, keyRet, obsVars, computed, dataVars, storeVars, user, cacheKey,
                   result, prevKey, ret, keyRV, nread>>

\* one read of that call; the last one returns
AddRolesToHashRead(t, order) ==
    /\ pc[t] = "hash"
    /\ LET w == HashStep(walk[t], order)
       IN IF w.todo # <<>>
          THEN /\ walk' = [walk EXCEPT ![t] = w]
               /\ nread' = [nread EXCEPT ![t] = @ + 1]
               /\ UNCHANGED <<hashRet, pc, user, cacheKey, result, prevKey, startRV, keyRV>>
          ELSE /\ hashRet' = [kind |-> w.subject.kind, name |-> w.subject.name,
                              digest |-> w.digest, records |-> w.records]
               /\ Idle(t)
    /\ UNCHANGED <<cacheOn, keyRet, getRet, httpVars, computed, dataVars, storeVars, ret>>

\* lines 215-227, called on its own
GetCall(t, p, subjectName) ==
    /\ pc[t] = "idle"
    /\ startRV' = [startRV EXCEPT ![t] = rv]
    /\ pc' = [pc EXCEPT ![t] = "lookup"]
    /\ walk' = [walk EXCEPT ![t] =
                  [WalkOf(GetReads(p, subjectName))
                     EXCEPT !.subject = [kind |-> p.kind, name |-> subjectName]]]
    /\ getRet' = NoGetRet
    /\ UNCHANGED <<cacheOn, keyRet, hashRet, httpVars, computed, dataVars, storeVars, user,
                   cacheKey, result, prevKey, ret, keyRV, nread>>

\* one read of that call: a lookup, whose bindings are kept as returned, or
\* the addAccess of one binding; the last one returns the AccessSet
GetRead(t, order) ==
    /\ pc[t] = "lookup"
    /\ LET item == Head(walk[t].todo)
           w == GetStep(walk[t], order)
           found == SubSeq(w.todo, 1, Len(w.todo) + 1 - Len(walk[t].todo))
           seen == IF item.op \in {"rbs", "crbs"} THEN [w EXCEPT !.records = @ \o found]
                   ELSE w
           Found(op) ==
               LET of == SelectSeq(seen.records, LAMBDA read : read.op = op)
               IN [i \in DOMAIN of |-> of[i].binding]
       IN IF seen.todo # <<>>
          THEN /\ walk' = [walk EXCEPT ![t] = seen]
               /\ nread' = [nread EXCEPT ![t] = @ + 1]
               /\ UNCHANGED <<getRet, pc, user, cacheKey, result, prevKey, startRV, keyRV>>
          ELSE /\ getRet' = [kind |-> seen.subject.kind, name |-> seen.subject.name,
                             as |-> seen.sub,
                             crbs |-> Found("crb"),
                             rbs |-> Found("rb"),
                             startRV |-> startRV[t], endRV |-> rv]
               /\ Idle(t)
    /\ UNCHANGED <<cacheOn, keyRet, hashRet, httpVars, computed, dataVars, storeVars, ret>>

-----------------------------------------------------------------------------
(* The cluster: role and binding changes, each with a new resource version *)

Bump ==
    /\ rv < MaxRV
    /\ rv' = rv + 1

CreateClusterRoleBinding(crb) ==
    /\ crb \notin crbCache
    /\ Bump
    /\ crbCache' = crbCache \cup {crb}
    /\ UNCHANGED <<cacheOn, keyRet, obsVars, computed,
                   rbCache, crCache, rCache, storeVars, callVars>>

DeleteClusterRoleBinding(crb) ==
    /\ crb \in crbCache
    /\ Bump
    /\ crbCache' = crbCache \ {crb}
    /\ UNCHANGED <<cacheOn, keyRet, obsVars, computed,
                   rbCache, crCache, rCache, storeVars, callVars>>

CreateRoleBinding(rb) ==
    /\ rb \notin rbCache
    /\ Bump
    /\ rbCache' = rbCache \cup {rb}
    /\ UNCHANGED <<cacheOn, keyRet, obsVars, computed,
                   crbCache, crCache, rCache, storeVars, callVars>>

DeleteRoleBinding(rb) ==
    /\ rb \in rbCache
    /\ Bump
    /\ rbCache' = rbCache \ {rb}
    /\ UNCHANGED <<cacheOn, keyRet, obsVars, computed,
                   crbCache, crCache, rCache, storeVars, callVars>>

\* create or update
PutClusterRole(name, rules) ==
    /\ Bump
    /\ crCache' = { cr \in crCache : cr.Name # name }
                    \cup { [Name |-> name, Rules |-> rules, ResourceVersion |-> Itoa(rv + 1)] }
    /\ UNCHANGED <<cacheOn, keyRet, obsVars, computed,
                   crbCache, rbCache, rCache, storeVars, callVars>>

DeleteClusterRole(name) ==
    /\ \E cr \in crCache : cr.Name = name
    /\ Bump
    /\ crCache' = { cr \in crCache : cr.Name # name }
    /\ UNCHANGED <<cacheOn, keyRet, obsVars, computed,
                   crbCache, rbCache, rCache, storeVars, callVars>>

PutRole(k, rules) ==
    /\ Bump
    /\ rCache' = { r \in rCache : ~(r.Namespace = k.Namespace /\ r.Name = k.Name) }
                   \cup { [Namespace |-> k.Namespace, Name |-> k.Name, Rules |-> rules,
                           ResourceVersion |-> Itoa(rv + 1)] }
    /\ UNCHANGED <<cacheOn, keyRet, obsVars, computed,
                   crbCache, rbCache, crCache, storeVars, callVars>>

DeleteRole(k) ==
    /\ \E r \in rCache : r.Namespace = k.Namespace /\ r.Name = k.Name
    /\ Bump
    /\ rCache' = { r \in rCache : ~(r.Namespace = k.Namespace /\ r.Name = k.Name) }
    /\ UNCHANGED <<cacheOn, keyRet, obsVars, computed,
                   crbCache, rbCache, crCache, storeVars, callVars>>

AccessFor(t, infos) ==
    \/ \E userInfo \in infos : AccessForCall(t, userInfo)
    \/ \E order \in IndexOrders : AccessForCacheKey(t, order)
    \/ AccessForGet(t)
    \/ \E order \in IndexOrders : AccessForResolve(t, order)
    \/ AccessForLock(t)
    \/ AccessForEvict(t)
    \/ AccessForAdd(t)

\* the identities a caller asks for: the observed caller for either, the
\* callers that run beside it for u
CallerInfos(t) ==
    IF t = Observed THEN SharedUserInfos ELSE { UserInfo(Str_u, << Str_g, Str_h >>) }

Next ==
    \/ \E t \in Threads : AccessFor(t, CallerInfos(t))
    \/ \E crb \in SharedCRBs : CreateClusterRoleBinding(crb)
    \/ \E crb \in SharedCRBs : DeleteClusterRoleBinding(crb)

\* concurrent callers over a cluster whose group bindings come and go
Spec == Init /\ [][Next]_vars

NextOne ==
    \/ AccessFor(Observed, UserInfos)
    \/ \E crb \in SharedCRBs : CreateClusterRoleBinding(crb)
    \/ \E crb \in SharedCRBs : DeleteClusterRoleBinding(crb)

\* one caller, whose identities list their groups in either order
SpecOne == Init /\ [][NextOne]_vars

\* the positions of a caller in AccessFor
Positions == {"idle", "key", "get", "resolve", "lock", "evict", "add"}

\* caller t, under way and waiting for nothing, takes its next step: it makes
\* one more read at its position or its position changes (these are the
\* steps AccessForCacheKey, AccessForGet, AccessForResolve, AccessForEvict and
\* AccessForAdd of t, which its position alone enables)
Running(t) ==
    /\ pc[t] \in Positions \ {"idle", "lock"}
    /\ \/ /\ nread' = [nread EXCEPT ![t] = @ + 1]
          /\ pc' = pc
       \/ /\ nread' = [nread EXCEPT ![t] = 0]
          /\ \E q \in Positions \ {pc[t]} : pc' = [pc EXCEPT ![t] = q]

\* caller t gets the mutex: the step AccessForLock of t
Locking(t) ==
    /\ pc[t] = "lock"
    /\ mtx = NoThread
    /\ pc' = [pc EXCEPT ![t] = "evict"]
    /\ nread' = nread

\* the callers contend for the entry of one identity
NextFair ==
    \/ \E t \in Threads : AccessFor(t, { UserInfo(Str_u, << Str_g, Str_h >>) })
    \/ \E crb \in SharedCRBs : CreateClusterRoleBinding(crb)
    \/ \E crb \in SharedCRBs : DeleteClusterRoleBinding(crb)

\* every caller scheduled fairly: a call under way takes its next step, and a
\* caller that finds the mutex free again and again gets it (sync.Mutex hands
\* the lock to a waiter that has waited long)
SpecFair ==
    /\ Init
    /\ [][NextFair]_vars
    /\ \A t \in Threads : WF_<<pc, nread>>(Running(t)) /\ SF_<<pc, nread>>(Locking(t))

NextCluster ==
    \/ \E userInfo \in UserInfos : CacheKeyCall(Observed, userInfo)
    \/ \E order \in IndexOrders : CacheKeyRead(Observed, order)
    \/ \E crb \in CRBUniverse : CreateClusterRoleBinding(crb)
    \/ \E crb \in CRBUniverse : DeleteClusterRoleBinding(crb)
    \/ \E rb \in RBUniverse : CreateRoleBinding(rb)
    \/ \E rb \in RBUniverse : DeleteRoleBinding(rb)
    \/ \E name \in ClusterRoleNames, rules \in RuleLists : PutClusterRole(name, rules)
    \/ \E name \in ClusterRoleNames : DeleteClusterRole(name)
    \/ \E k \in RoleKeys, rules \in RuleLists : PutRole(k, rules)
    \/ \E k \in RoleKeys : DeleteRole(k)

\* CacheKey over a cluster with every kind of binding and role change
SpecCluster == InitCluster /\ [][NextCluster]_vars

NextIndex ==
    \/ \E p \in {users, groups}, subjectName \in LookupNames : GetCall(Observed, p, subjectName)
    \/ \E order \in IndexOrders : GetRead(Observed, order)
    \/ \E crb \in { b \in IndexCRBs : b.Name = Str_g } : CreateClusterRoleBinding(crb)
    \/ \E crb \in { b \in IndexCRBs : b.Name = Str_g } : DeleteClusterRoleBinding(crb)
    \/ \E rb \in { b \in IndexRBs : b.Name \in {Str_b, Str_g} } : CreateRoleBinding(rb)
    \/ \E rb \in { b \in IndexRBs : b.Name \in {Str_b, Str_g} } : DeleteRoleBinding(rb)
    \/ PutClusterRole(Str_s, RulesA)
    \/ DeleteClusterRole(Str_r)
    \/ PutRole([Namespace |-> Str_n, Name |-> Str_r], RulesB)
    \/ DeleteRole([Namespace |-> Str_n, Name |-> Str_r])

\* lookups in the two indexes of a cluster that holds every kind of binding
\* and changes while they run: the bindings of the group u and a role binding
\* of the user u come and go, the roles r and s change
SpecIndex == InitIndex /\ [][NextIndex]_vars

\* the subject names whose bound roles are hashed
DigestNames == { Str_g, Str_h, Str_u }

NextDigest ==
    \/ \E p \in {users, groups}, subjectName \in DigestNames :
          AddRolesToHashCall(Observed, p, subjectName)
    \/ \E order \in IndexOrders : AddRolesToHashRead(Observed, order)
    \/ \E crb \in DigestCRBs : CreateClusterRoleBinding(crb)
    \/ \E crb \in DigestCRBs : DeleteClusterRoleBinding(crb)
    \/ \E rb \in DigestRBs : CreateRoleBinding(rb)
    \/ \E rb \in DigestRBs : DeleteRoleBinding(rb)

\* the digest input over bindings whose records run together
SpecDigest == InitDigest /\ [][NextDigest]_vars

NextKeys ==
    \/ \E userInfo \in UserInfos : CacheKeyCall(Observed, userInfo)
    \/ \E order \in IndexOrders : CacheKeyRead(Observed, order)
    \/ \E userInfo \in UserInfos : AccessForCall(Observed, userInfo)
    \/ \E order \in IndexOrders : AccessForResolve(Observed, order)
    \/ \E crb \in DigestCRBs : CreateClusterRoleBinding(crb)
    \/ \E crb \in DigestCRBs : DeleteClusterRoleBinding(crb)
    \/ \E rb \in DigestRBs : CreateRoleBinding(rb)
    \/ \E rb \in DigestRBs : DeleteRoleBinding(rb)

\* the key and the uncached resolution over the same bindings
SpecKeys == InitDigest /\ [][NextKeys]_vars

-----------------------------------------------------------------------------
(* What the properties speak of *)

AnyOrder == CHOOSE o \in IndexOrders : TRUE

\* the groups of an identity, as a set
GroupSet(name) == UNION { Range(i.groups) : i \in { j \in UserInfos : j.name = name } }

InCriticalSection(t) == pc[t] \in {"evict", "add"}

-----------------------------------------------------------------------------
(* C1: with caching enabled, a call whose key has an entry in the cache
   returns exactly the stored AccessSet, resolves nothing, and leaves the
   cache's key-to-value contents and userKeys as they were. *)
C1_HitReturnsStored ==
    [][\A t \in Threads :
         (pc[t] = "get" /\ LRUHas(cache, cacheKey[t]) /\ pc'[t] # "get")
         => /\ pc'[t] = "idle"
            /\ result'[t] = result[t]
            /\ t = Observed => ret'.as = LRUValue(cache, cacheKey[t])
            /\ CacheContents(cache') = CacheContents(cache)
            /\ userKeys' = userKeys]_vars

\* the observed caller was served v's AccessSet though no call ever recorded a
\* key for v: a hit on an entry another identity's call stored
C1_Witness ==
    /\ cacheOn
    /\ ret.name = Str_v
    /\ ret.as.ID # EmptyStr
    /\ Str_v \notin DOMAIN userKeys

(* C2: once an identity's key has changed and a call for the identity has
   been resolved under the new key, the entry that was cached under the
   identity's old key (the one its previous call was served from) is no
   longer in the cache, and the new key is the one recorded for the
   identity. *)
C2_OldEntryEvicted ==
    [][(/\ pc[Observed] = "add" /\ pc'[Observed] = "idle"
        /\ ret.name = user[Observed].name
        /\ ret.as.ID # EmptyStr
        /\ ret.as.ID # cacheKey[Observed])
       => /\ ~LRUHas(cache', ret.as.ID)
          /\ user[Observed].name \in DOMAIN userKeys'
          /\ userKeys'[user[Observed].name] = cacheKey[Observed]]_vars

\* what the code does do on a miss: the key that was recorded for the identity
\* is evicted when it differs, and the new key is recorded and stored
C2_RecordedKeyEvicted ==
    [][\A t \in Threads :
         (pc[t] = "add" /\ pc'[t] = "idle")
         => /\ (prevKey[t].ok /\ prevKey[t].key # cacheKey[t])
                 => ~LRUHas(cache', prevKey[t].key)
            /\ user[t].name \in DOMAIN userKeys'
            /\ userKeys'[user[t].name] = cacheKey[t]
            /\ LRUHas(cache', cacheKey[t])]_vars

(* C3: the eviction a miss for identity u performs leaves in the cache every
   entry another identity v is currently served from (the entry under v's
   current CacheKey), also when u and v had the same key. *)
C3_OthersIntact ==
    [][\A t \in Threads :
         (pc[t] = "evict" /\ pc'[t] = "add")
         => \A v \in UserInfos :
               v.name # user[t].name
               => (LRUHas(cache, CacheKey(v, AnyOrder)) => LRUHas(cache', CacheKey(v, AnyOrder)))]_vars

(* C4: a call that had computed its key before a role/binding change never
   evicts the entry recorded by a call for the same identity that was made,
   and so computed its key, after the change. *)
C4_StaleNeverEvictsNewer ==
    [][\A t \in Threads :
         (/\ pc[t] = "evict" /\ pc'[t] = "add"
          /\ user[t].name \in DOMAIN userKeys
          /\ recordedRV[user[t].name] > keyRV[t])
         => (LRUHas(cache, userKeys[user[t].name])
               => LRUHas(cache', userKeys[user[t].name]))]_vars

(* C5: userKeys is read and written, and the old entry evicted, only by the
   caller holding the mutex, at most one caller is in the critical section,
   and once all calls have returned the key recorded for an identity is the
   key of the call that entered the critical section last and its entry is
   in the cache. *)
C5_MutexAndLastEntered ==
    /\ \A t \in Threads : InCriticalSection(t) => mtx = t
    /\ Cardinality({ t \in Threads : InCriticalSection(t) }) <= 1
    /\ (\A t \in Threads : pc[t] = "idle")
         => \A n \in DOMAIN userKeys :
               /\ userKeys[n] = entered[n]
               /\ LRUHas(cache, userKeys[n])

\* C5 without its last clause, which holds
C5_MutexOnly ==
    /\ \A t \in Threads : InCriticalSection(t) => mtx = t
    /\ Cardinality({ t \in Threads : InCriticalSection(t) }) <= 1
    /\ (\A t \in Threads : pc[t] = "idle")
         => \A n \in DOMAIN userKeys : userKeys[n] = entered[n]

(* C6: CacheKey does not depend on the order in which the identity's groups
   are listed: every permutation of the group list gives the key that was
   returned, for role/binding data unchanged since that call was made. *)
C6_GroupOrderIrrelevant ==
    (keyRet.startRV = rv)
    => \A groupList \in Perms(Range(keyRet.user.groups)), o \in IndexOrders :
          CacheKey(UserInfo(keyRet.user.name, groupList), o) = keyRet.key

(* C7: changing the revision of a role that a binding of the identity
   references, or adding or removing a binding of the identity, changes
   CacheKey(identity): after one such change the key is not the one a call
   of CacheKey returned before it (a call during which nothing changed). *)
C7_KeySensitive ==
    (/\ keyRet.rv > 0
     /\ keyRet.startRV = keyRet.rv
     /\ rv = keyRet.rv + 1
     /\ \/ MatchingCRBs(keyRet.user) # keyRet.crbs
        \/ MatchingRBs(keyRet.user) # keyRet.rbs
        \/ RoleRevisions(keyRet.user) # keyRet.revs)
    => \A o \in IndexOrders : CacheKey(keyRet.user, o) # keyRet.key

\* a key was returned for an identity with bindings, and one change since gave
\* a role those bindings reference another revision
C7_Witness ==
    /\ keyRet.rv > 0
    /\ keyRet.startRV = keyRet.rv
    /\ rv = keyRet.rv + 1
    /\ keyRet.crbs \cup keyRet.rbs # {}
    /\ MatchingCRBs(keyRet.user) = keyRet.crbs
    /\ MatchingRBs(keyRet.user) = keyRet.rbs
    /\ RoleRevisions(keyRet.user) # keyRet.revs

(* C8: over unchanged bindings and revisions CacheKey is the same whatever
   order the binding indexes list their objects in, and a change to a role
   that no binding of the identity references leaves the key as it was (the
   key a call returned during which nothing changed). *)
C8_KeyDeterministic ==
    /\ (keyRet.startRV = rv)
         => \A o \in IndexOrders : CacheKey(keyRet.user, o) = keyRet.key
    /\ (/\ keyRet.rv > 0
        /\ keyRet.startRV = keyRet.rv
        /\ keyRet.rv < rv
        /\ MatchingCRBs(keyRet.user) = keyRet.crbs
        /\ MatchingRBs(keyRet.user) = keyRet.rbs
        /\ RoleRevisions(keyRet.user) = keyRet.revs)
         => \A o \in IndexOrders : CacheKey(keyRet.user, o) = keyRet.key

\* a key was returned for u while two role bindings and two cluster role
\* bindings of one subject were listed, and a role that u's bindings do not
\* reference has changed since
C8_Witness ==
    /\ keyRet.user.name = Str_u
    /\ keyRet.rv > 0
    /\ keyRet.startRV = keyRet.rv
    /\ keyRet.rv < rv
    /\ Cardinality(keyRet.rbs) = 2
    /\ Cardinality({ crb \in keyRet.crbs : Str_g \in Range(clusterRoleBindingBySubjectIndexer(groups, crb)) }) = 2
    /\ MatchingCRBs(keyRet.user) = keyRet.crbs
    /\ MatchingRBs(keyRet.user) = keyRet.rbs
    /\ RoleRevisions(keyRet.user) = keyRet.revs

(* C9: two calls for the same identity with no role or binding change from
   the start of the first to the return of the second return the same
   grants, with and without a cache. *)
C9_Idempotent ==
    [][(ret' # ret /\ ret.startRV = rv /\ ret'.name = ret.name)
         => ret'.as.set = ret.as.set]_vars

(* C10: without a cache every call returns the union of users.get(name) and
   groups.get(g) for each of its groups, over the roles and bindings as they
   are at the call (a call during which they do not change), with an empty
   ID, and the cache, the mutex and userKeys stay untouched. *)
C10_UncachedRecomputes ==
    [][(~cacheOn)
         => /\ cache' = <<>> /\ mtx' = NoThread /\ userKeys' = <<>>
            /\ (ret' # ret)
                 => /\ ret'.as.ID = EmptyStr
                    /\ (ret'.startRV = rv)
                         => ret'.as.set =
                              get(users, ret'.name, AnyOrder).set
                              \cup UNION { get(groups, g, AnyOrder).set :
                                             g \in GroupSet(ret'.name) }]_vars

\* an uncached call made after a cluster change returned grants
C10_Witness ==
    /\ ~cacheOn
    /\ ret.startRV > 4
    /\ ret.as.set # {}
    /\ ret.as.ID = EmptyStr

-----------------------------------------------------------------------------
(* Grants, stated from the cluster's objects *)

\* the grants of a list of rules in a namespace: one per listed group,
\* resource, verb and resource name, the name "*" when none is listed
GrantsOfRules(rules, namespace) ==
    UNION { { [verb |-> v, gr |-> [Group |-> g, Resource |-> r],
               access |-> [Namespace |-> namespace, ResourceName |-> nm]] :
                <<v, g, r, nm>> \in
                    Range(rules[i].Verbs) \X Range(rules[i].APIGroups)
                    \X Range(rules[i].Resources)
                    \X (IF rules[i].ResourceNames = <<>> THEN {All}
                        ELSE Range(rules[i].ResourceNames)) } :
            i \in DOMAIN rules }

\* the rules of the role a binding of the namespace refers to, none when the
\* reference dangles
RulesOfClusterRole(name) == UNION { {cr.Rules} : cr \in { c \in crCache : c.Name = name } }
RulesOfRole(namespace, name) ==
    UNION { {r.Rules} : r \in { x \in rCache : x.Namespace = namespace /\ x.Name = name } }

\* what one role binding and one cluster role binding grant
GrantsOfRoleBinding(rb) ==
    UNION { GrantsOfRules(rules, rb.Namespace) :
              rules \in IF rb.RoleRef.Kind = "ClusterRole" THEN RulesOfClusterRole(rb.RoleRef.Name)
                        ELSE IF rb.RoleRef.Kind = "Role"
                        THEN RulesOfRole(rb.Namespace, rb.RoleRef.Name)
                        ELSE {} }

GrantsOfClusterRoleBinding(crb) ==
    UNION { GrantsOfRules(rules, All) :
              rules \in IF crb.RoleRef.Kind = "ClusterRole"
                        THEN RulesOfClusterRole(crb.RoleRef.Name) ELSE {} }

\* the bindings of the cluster that an index holds under a subject name
BoundCRBs(p, subjectName) ==
    { crb \in crbCache : subjectName \in Range(clusterRoleBindingBySubjectIndexer(p, crb)) }
BoundRBs(p, subjectName) ==
    { rb \in rbCache : subjectName \in Range(roleBindingBySubject(p, rb)) }

\* the last call of get has returned, and the cluster has not changed since
\* the call was made
GetUndisturbed == getRet.kind # "" /\ getRet.startRV = rv

(* C11: get(subject) holds the grant (verb, group/resource) -> (namespace,
   name) exactly when a role binding indexed under the subject resolves to a
   role with a rule listing that group, resource and verb, the namespace being
   the binding's, or a cluster role binding indexed under it resolves to a
   cluster role with such a rule, the namespace being "*"; the name is each
   listed resource name, "*" when the rule lists none. A role binding that
   refers to a cluster role grants in the binding's namespace only. The
   bindings and roles are those of a cluster that does not change while get
   makes its lookups and reads its roles. *)
C11_GetIsUnionOfBoundGrants ==
    GetUndisturbed
      => LET p == [kind |-> getRet.kind]
         IN getRet.as.set =
              UNION { GrantsOfRoleBinding(rb) : rb \in BoundRBs(p, getRet.name) }
              \cup UNION { GrantsOfClusterRoleBinding(crb) : crb \in BoundCRBs(p, getRet.name) }

\* get returned, for one subject, a grant of a role binding that refers to a
\* cluster role (in the binding's namespace, for a listed resource name) and a
\* grant of a cluster role binding (namespace "*", name "*")
C11_Witness ==
    /\ GetUndisturbed
    /\ \E rb \in Range(getRet.rbs) : rb.RoleRef.Kind = "ClusterRole"
    /\ \E e \in getRet.as.set :
          e.access = [Namespace |-> Str_n, ResourceName |-> Str_x]
    /\ \E e \in getRet.as.set :
          e.access = [Namespace |-> All, ResourceName |-> All]

-----------------------------------------------------------------------------
(* Subjects and the indexes *)

\* a service account subject as Kubernetes writes it: kind ServiceAccount, no
\* API group, in a namespace
IsServiceAccount(subject) ==
    /\ subject.Kind = "ServiceAccount"
    /\ subject.APIGroup = ""
    /\ subject.Namespace # EmptyStr

\* bindings all of whose subjects are service accounts
OfServiceAccounts(binding) ==
    /\ binding.Subjects # <<>>
    /\ \A i \in DOMAIN binding.Subjects : IsServiceAccount(binding.Subjects[i])

\* the lookup returned the binding exactly if it was a lookup in the User
\* index for serviceaccount:ns:sa of one of the binding's subjects
ReturnedForServiceAccount(binding, returned) ==
    (binding \in Range(returned))
      <=> /\ getRet.kind = "User"
          /\ \E i \in DOMAIN binding.Subjects :
                getRet.name = Str_serviceaccount \o Str_colon \o binding.Subjects[i].Namespace
                                \o Str_colon \o binding.Subjects[i].Name

(* C12, as claimed: a service account subject of a role binding or of a
   cluster role binding is returned by the User index for the lookup name
   serviceaccount:ns:sa, for no other lookup name, and never by the Group
   index (the bindings being those of a cluster that does not change during
   the lookups). *)
C12_ServiceAccountIndexed ==
    GetUndisturbed
      => /\ \A rb \in { b \in rbCache : OfServiceAccounts(b) } :
               ReturnedForServiceAccount(rb, getRet.rbs)
         /\ \A crb \in { b \in crbCache : OfServiceAccounts(b) } :
               ReturnedForServiceAccount(crb, getRet.crbs)

(* C12, amended: a service account subject of a role binding, or of a cluster
   role binding that refers to a ClusterRole, is returned by the User index
   for the lookup name serviceaccount:ns:sa, for no other lookup name, and
   never by the Group index (the bindings being those of a cluster that does
   not change during the lookups). *)
C12_ServiceAccountOfValidBinding ==
    GetUndisturbed
      => /\ \A rb \in { b \in rbCache : OfServiceAccounts(b) } :
               ReturnedForServiceAccount(rb, getRet.rbs)
         /\ \A crb \in { b \in crbCache : OfServiceAccounts(b) /\ b.RoleRef.Kind = "ClusterRole" } :
               ReturnedForServiceAccount(crb, getRet.crbs)

\* the User index was asked for serviceaccount:n:a and returned a role binding
\* and a cluster role binding of that service account
C12_Witness ==
    /\ GetUndisturbed
    /\ getRet.kind = "User"
    /\ getRet.name = Str_serviceaccount \o Str_colon \o Str_n \o Str_colon \o Str_a
    /\ \E rb \in Range(getRet.rbs) : OfServiceAccounts(rb)
    /\ \E crb \in Range(getRet.crbs) : OfServiceAccounts(crb)

-----------------------------------------------------------------------------
(* Merging *)

\* the orders in which an identity's groups can be listed
GroupOrders(name) == Perms(GroupSet(name))

(* C13: the grants AccessFor resolves on a miss, and without a cache, do not
   depend on the order in which the identity's groups are merged: over roles
   and bindings that do not change while it resolves, they are those of the
   resolution with the groups in any other order. Merging is a
   union: merge(merge(A, B), C), merge(A, merge(B, C)) and merge(merge(B, A), C)
   hold the same grants, and merging the same set a second time changes
   nothing; A, B and C are the grants of the identity and of its groups. *)
C13_MergeOrderIrrelevant ==
    [][/\ \A t \in Threads :
             (pc[t] = "resolve" /\ pc'[t] = "lock" /\ keyRV[t] = rv)
               => \A groupList \in GroupOrders(user[t].name) :
                     resolve(UserInfo(user[t].name, groupList), AnyOrder).set = result'[t].set
       /\ (~cacheOn /\ ret' # ret /\ ret'.startRV = rv)
             => \A groupList \in GroupOrders(ret'.name) :
                   resolve(UserInfo(ret'.name, groupList), AnyOrder).set = ret'.as.set
       /\ \A name \in { user[t].name : t \in { c \in Threads : pc[c] = "resolve" } } :
             \A groupList \in GroupOrders(name) :
                \A i, j \in DOMAIN groupList :
                   LET A == get(users, name, AnyOrder)
                       B == get(groups, groupList[i], AnyOrder)
                       C == get(groups, groupList[j], AnyOrder)
                   IN /\ Merge(Merge(A, B), C).set = Merge(A, Merge(B, C)).set
                      /\ Merge(Merge(A, B), C).set = Merge(Merge(B, A), C).set
                      /\ Merge(Merge(A, B), B) = Merge(A, B)]_vars

\* a miss of u was resolved from the different grants of its two groups
C13_Witness ==
    \E t \in Threads :
       /\ pc[t] = "lock"
       /\ user[t].name = Str_u
       /\ keyRV[t] = rv
       /\ get(groups, Str_g, AnyOrder).set # {}
       /\ get(groups, Str_h, AnyOrder).set # {}
       /\ get(groups, Str_g, AnyOrder).set # get(groups, Str_h, AnyOrder).set
       /\ result[t].set = get(groups, Str_g, AnyOrder).set \cup get(groups, Str_h, AnyOrder).set

-----------------------------------------------------------------------------
(* Dangling role references *)

\* the reference of a binding of the namespace names no role of the cluster,
\* or is of a kind that is neither Role nor ClusterRole
Dangling(namespace, roleRef) ==
    CASE roleRef.Kind = "ClusterRole" -> ~ \E cr \in crCache : cr.Name = roleRef.Name
      [] roleRef.Kind = "Role" ->
            ~ \E r \in rCache : r.Namespace = namespace /\ r.Name = roleRef.Name
      [] OTHER -> TRUE

(* C14: a binding whose role reference dangles (the role is not found, or
   the reference is of a kind other than Role and ClusterRole) adds no grant,
   the resolution completes (a call under way always has a next read to make
   or returns), and what get returns over a cluster that does not change
   during the call is what the other bindings the indexes returned give
   without the dangling ones. *)
C14_DanglingGrantsNothing ==
    /\ \A t \in Threads : pc[t] = "lookup" => walk[t].todo # <<>>
    /\ GetUndisturbed
      => /\ \A i \in DOMAIN getRet.rbs :
               Dangling(getRet.rbs[i].Namespace, getRet.rbs[i].RoleRef)
                 => addAccess(NewAccessSet, getRet.rbs[i].Namespace, getRet.rbs[i].RoleRef)
                      = NewAccessSet
         /\ \A i \in DOMAIN getRet.crbs :
               Dangling(EmptyStr, getRet.crbs[i].RoleRef)
                 => addAccess(NewAccessSet, All, getRet.crbs[i].RoleRef) = NewAccessSet
         /\ getRet.as =
              addAccessClusterRoleBindings(
                 addAccessRoleBindings(
                    NewAccessSet,
                    SelectSeq(getRet.rbs, LAMBDA rb : ~Dangling(rb.Namespace, rb.RoleRef))),
                 SelectSeq(getRet.crbs, LAMBDA crb : ~Dangling(EmptyStr, crb.RoleRef)))

\* get returned grants for a subject with a role binding whose reference is
\* of another kind, a cluster role binding to a role that does not exist and
\* a binding that resolves
C14_Witness ==
    /\ GetUndisturbed
    /\ \E i \in DOMAIN getRet.rbs : getRet.rbs[i].RoleRef.Kind \notin {"Role", "ClusterRole"}
    /\ \E i \in DOMAIN getRet.crbs : Dangling(EmptyStr, getRet.crbs[i].RoleRef)
    /\ getRet.as.set # {}

-----------------------------------------------------------------------------
(* Publication *)

(* C15: an AccessSet is complete before it is visible. A caller's result
   changes only in the steps of the resolution (all merging, and the ID
   stamp at the last of them), while it is still the caller's own, and is
   stamped with the key when the caller goes on to the mutex; the step that
   adds it to the cache and
   returns it finds it stamped with the key and adds and returns it as it
   is; and the value the cache holds under a key changes only when a caller
   adds another AccessSet under that key, under every interleaving. *)
C15_PublishAfterComplete ==
    [][/\ \A t \in Threads :
             /\ (result'[t] # result[t])
                  => \/ pc[t] = "resolve"
                     \/ pc'[t] = "idle" /\ result'[t] = NewAccessSet
             /\ (pc[t] = "resolve" /\ pc'[t] = "lock") => result'[t].ID = cacheKey[t]
             /\ (pc[t] = "add" /\ pc'[t] = "idle")
                  => /\ result[t].ID = cacheKey[t]
                     /\ LRUHas(cache', cacheKey[t])
                     /\ LRUValue(cache', cacheKey[t]) = result[t]
                     /\ (t = Observed) => ret'.as = result[t]
       /\ \A i \in DOMAIN cache :
             (LRUHas(cache', cache[i].key) /\ LRUValue(cache', cache[i].key) # cache[i].value)
               => \E t \in Threads :
                     pc[t] = "add" /\ pc'[t] = "idle" /\ cacheKey[t] = cache[i].key
       /\ \A i \in DOMAIN cache' : cache'[i].value.ID = cache'[i].key]_vars

\* the observed caller has returned an AccessSet with grants that is in the
\* cache under its ID while the other caller is resolving
C15_Witness ==
    /\ ret.as.set # {}
    /\ LRUHas(cache, ret.as.ID)
    /\ LRUValue(cache, ret.as.ID) = ret.as
    /\ \E t \in Threads : pc[t] = "lock" /\ result[t].set # {}

-----------------------------------------------------------------------------
(* The digest input *)

(* C16: the bytes addRolesToHash writes tell the sequences of bound-role
   records apart: a subject whose records (binding kind, role name,
   namespace, revision) differ from those written at the last call gets
   different bytes, whether the records were written for a cluster role
   binding or a role binding and however they split into name, namespace
   and revision. *)
C16_DigestInputInjective ==
    (hashRet.kind # "")
      => \A p \in {users, groups}, subjectName \in DigestNames, order \in IndexOrders :
            (Records(p, subjectName, order) # hashRet.records)
              => addRolesToHash(p, <<>>, subjectName, order) # hashRet.digest

(* C17: key soundness between two states at rest: when an identity's key
   over the roles and bindings as they are now equals the key CacheKey
   returned for it over an earlier state, resolving the identity now gives
   the grants that resolving it gave in that earlier state (nothing changed
   during either call). *)
C17_EqualKeysEqualGrants ==
    (/\ keyRet.rv > 0
     /\ keyRet.startRV = keyRet.rv
     /\ ret.startRV = keyRet.rv
     /\ ret.endRV = keyRet.rv
     /\ ret.name = keyRet.user.name
     /\ CacheKey(keyRet.user, AnyOrder) = keyRet.key)
      => resolve(keyRet.user, AnyOrder).set = ret.as.set

-----------------------------------------------------------------------------
(* The cache and the cluster *)

(* C18: snapshot consistency: the AccessSet cached under a key is the
   resolution of the roles and bindings the key was hashed from, so that in
   every reachable state (a change to the cluster is one step: none is in
   flight) an entry found under an identity's current key holds the grants
   of a fresh resolution of that identity. *)
C18_EntryMatchesCurrentState ==
    \A userInfo \in SharedUserInfos :
       LRUHas(cache, CacheKey(userInfo, AnyOrder))
         => LRUValue(cache, CacheKey(userInfo, AnyOrder)).set = resolve(userInfo, AnyOrder).set

(* C19: with caching enabled, the key userKeys holds for an identity is the
   key AccessFor computed last for that identity, a call that ended in a hit
   included, whenever no call for the identity is under way; and whether a
   call hits or misses depends on the cache alone, never on userKeys. *)
C19_UserKeysIsLastComputed ==
    [][/\ cacheOn
            => \A name \in DOMAIN userKeys' :
                  (\A t \in Threads : user'[t].name # name)
                    => userKeys'[name] = computed'[name]
       /\ \A t \in Threads :
             (pc[t] = "get" /\ pc'[t] # "get")
               => (pc'[t] = "idle" <=> LRUHas(cache, cacheKey[t]))]_vars

\* a subject of the RBAC group, of the kind of the index asked and with the
\* name asked for
IsAskedSubject(subject) ==
    /\ subject.APIGroup = rbacGroup
    /\ subject.Kind = getRet.kind
    /\ subject.Name = getRet.name

\* a service account subject asked for by its serviceaccount:ns:sa name in
\* the User index
IsAskedServiceAccount(subject) ==
    /\ getRet.kind = "User"
    /\ IsServiceAccount(subject)
    /\ getRet.name = Str_serviceaccount \o Str_colon \o subject.Namespace
                       \o Str_colon \o subject.Name

\* the bindings a lookup returned
ReturnedBindings == Range(getRet.rbs) \cup Range(getRet.crbs)

\* what the claim says of cluster role bindings and of role bindings: one
\* whose reference is not a ClusterRole is never returned, a role binding
\* with the subject asked for is returned whatever the kind of its reference
\* (a role binding of a cluster that did not change during the lookups)
RoleKindRule ==
    /\ \A crb \in Range(getRet.crbs) : crb.RoleRef.Kind = "ClusterRole"
    /\ GetUndisturbed
         => \A rb \in rbCache :
               (\E i \in DOMAIN rb.Subjects : IsAskedSubject(rb.Subjects[i]))
                 => rb \in Range(getRet.rbs)

(* C20, as claimed: an index returns a binding for a subject only when the
   subject's API group is the RBAC group and its kind is the kind of the
   index, so that a Group subject named X gives nothing to the user X nor a
   User subject to a group; a cluster role binding whose reference is not a
   ClusterRole is returned by neither index, a role binding is indexed for
   either kind of role. *)
C20_SubjectKindSeparation ==
    (getRet.kind # "")
      => /\ \A b \in ReturnedBindings : \E i \in DOMAIN b.Subjects : IsAskedSubject(b.Subjects[i])
         /\ RoleKindRule

(* C20, amended: an index returns a binding for a subject only when the
   subject's API group is the RBAC group and its kind is the kind of the
   index, or when the index is the User index and the subject is a service
   account (no API group, a namespace) looked up as serviceaccount:ns:sa; so
   a Group subject named X gives nothing to the user X nor a User subject to
   a group; a cluster role binding whose reference is not a ClusterRole is
   returned by neither index, a role binding is indexed for either kind of
   role. *)
C20_SubjectKindOrServiceAccount ==
    (getRet.kind # "")
      => /\ \A b \in ReturnedBindings :
               \E i \in DOMAIN b.Subjects :
                  IsAskedSubject(b.Subjects[i]) \/ IsAskedServiceAccount(b.Subjects[i])
         /\ RoleKindRule

\* the User index was asked for u and returned a role binding, while the
\* cluster holds a role binding of the group u that it did not return and a
\* cluster role binding of the user u to a Role
C20_Witness ==
    /\ GetUndisturbed
    /\ getRet.kind = "User"
    /\ getRet.name = Str_u
    /\ getRet.rbs # <<>>
    /\ \E rb \in rbCache :
          /\ rb \notin Range(getRet.rbs)
          /\ \E i \in DOMAIN rb.Subjects :
                rb.Subjects[i].Kind = "Group" /\ rb.Subjects[i].Name = Str_u
    /\ \E crb \in crbCache :
          /\ crb.RoleRef.Kind = "Role"
          /\ \E i \in DOMAIN crb.Subjects :
                crb.Subjects[i].Kind = "User" /\ crb.Subjects[i].Name = Str_u

-----------------------------------------------------------------------------
(* Cached values of another type *)

(* C21, its case: the only step that writes l.cache is the Add of line 192,
   which adds the caller's result, so every value the cache holds is an
   AccessSet and the type assertion of line 174 never fails. *)
C21_CacheHoldsAccessSets ==
    /\ \A i \in DOMAIN cache : IsAccessSet(cache[i].value)
    /\ \A t \in Threads : IsAccessSet(result[t])

(* C21: when the value found in the cache under the computed key is not an
   AccessSet, AccessFor goes on as on a miss: it resolves the identity from
   the indexes and returns that; what a call returns is an AccessSet, never
   nil. *)
C21_ForeignValueIsAMiss ==
    [][/\ \A t \in Threads :
             (/\ pc[t] = "get"
              /\ pc'[t] # "get"
              /\ LRUHas(cache, cacheKey[t])
              /\ ~IsAccessSet(LRUValue(cache, cacheKey[t])))
               => pc'[t] = "resolve"
       /\ (ret' # ret) => IsAccessSet(ret'.as)]_vars

-----------------------------------------------------------------------------
(* Termination and the mutex *)

\* the next step of a call under way can be taken
CanStep(t) == ENABLED (Running(t) \/ Locking(t))

(* C22: every call of AccessFor returns and releases the mutex: with the
   callers scheduled fairly, a call under way eventually returns; the mutex is
   held only by a caller inside lines 186-195, so by none that has returned;
   and whenever calls are under way one of them can take its next step (no
   deadlock: the caller that holds the mutex never waits). *)
C22_CallsReturnAndUnlock ==
    /\ [](\A t \in Threads : (mtx = t) => InCriticalSection(t))
    /\ []((\E t \in Threads : pc[t] # "idle")
            => \E t \in Threads : pc[t] # "idle" /\ CanStep(t))
    /\ [](\A t \in Threads : (mtx = t) => CanStep(t))
    /\ \A t \in Threads : (pc[t] # "idle") ~> (pc[t] = "idle")

\* one caller holds the mutex while every other caller waits for it
C22_Witness ==
    /\ \E t \in Threads : mtx = t /\ pc[t] = "add"
    /\ \A t \in Threads : (mtx # t) => (pc[t] = "lock" /\ ~CanStep(t))

-----------------------------------------------------------------------------
(* The router's middleware, pkg/server/router/router.go lines 21-93.        *)
(* Methods, path segments and type names are TLA+ strings; strings.Contains *)
(* is the substring test over them.  A request is its method and the        *)
(* segments of its path; only paths that match a route of Routes reach the  *)
(* middleware (every other path goes to m.NotFoundHandler).                 *)

MethodGet == "GET"
StatusBadRequest == 400

blackListTypes ==
    << "management.cattle.io.authconfig",
       "management.cattle.io.catalogtemplate",
       "management.cattle.io.catalog",
       "management.cattle.io.cluster",
       "management.cattle.io.clusterroletemplatebinding",
       "management.cattle.io.feature",
       "management.cattle.io.group",
       "management.cattle.io.kontainerdriver",
       "management.cattle.io.node",
       "management.cattle.io.nodedriver",
       "management.cattle.io.nodepool",
       "management.cattle.io.nodetemplate",
       "management.cattle.io.project",
       "management.cattle.io.projectroletemplatebinding",
       "management.cattle.io.roletemplate",
       "management.cattle.io.setting",
       "management.cattle.io.user",
       "management.cattle.io.token",
       "management.cattle.io.globalrole",
       "management.cattle.io.globalrolebinding",
       "management.cattle.io.podsecuritypolicytemplate" >>

\* strings.Contains(s, substr)
Contains(s, substr) ==
    \E i \in 0..(Len(s) - Len(substr)) : SubSeq(s, i + 1, i + Len(substr)) = substr

NoVars == [k \in {} |-> ""]

\* mux.Vars(r) for a path that matches a route of Routes
Vars(path) ==
    IF Len(path) = 1 /\ path[1] = "v1" THEN [name |-> "v1"]
    ELSE IF Len(path) = 2 /\ path[1] = "v1" THEN [type |-> path[2]]
    ELSE IF Len(path) = 3 /\ path[1] = "v1"
      THEN [type |-> path[2], nameorns |-> path[3]]
    ELSE IF Len(path) = 4 /\ path[1] = "v1"
      THEN [type |-> path[2], namespace |-> path[3], name |-> path[4]]
    ELSE IF Len(path) = 5 /\ path[1] = "v1"
      THEN [type |-> path[2], namespace |-> path[3], name |-> path[4], link |-> path[5]]
    ELSE NoVars

Methods == {"GET", "HEAD", "POST", "PUT", "PATCH", "DELETE"}

\* type names that are no entry of blackListTypes: some contain one, some do not
OtherTypes ==
    { "pods", "apps.deployments", "management.cattle.io", "management.cattle.io.fleetworkspace",
      "Management.Cattle.Io.User", "management.cattle.io.users",
      "xmanagement.cattle.io.tokenx", "provisioning.cattle.io.cluster" }

RequestTypes == { blackListTypes[i] : i \in DOMAIN blackListTypes } \cup OtherTypes

RequestPaths ==
    { <<>>, <<"v1">>, <<"api">>, <<"api", "v1", "pods">>, <<"version">>, <<"openapi", "v2">>,
      <<"apis", "management.cattle.io", "v3", "users">> }
    \cup { <<"v1", t>> : t \in RequestTypes }
    \cup { <<"v1", t, "ns">> : t \in RequestTypes }
    \cup { <<"v1", t, "ns", "name">> : t \in RequestTypes }
    \cup { <<"v1", t, "ns", "name", "link">> : t \in RequestTypes }

Requests == [Method : Methods, Path : RequestPaths]

\* next.ServeHTTP(w, r); return
Admit ==
    /\ response' = NoResponse
    /\ nextCalls' = 1

\* http.Error(w, error, code): the status, and the message written with
\* fmt.Fprintln, that is followed by a newline
httpError(error, code) == [status |-> code, body |-> error \o "\n"]

\* http.Error(w, fmt.Sprintf("routes with type: %s are blacklisted", t), 400); return
Reject(t) ==
    /\ response' = httpError("routes with type: " \o t \o " are blacklisted", StatusBadRequest)
    /\ nextCalls' = 0

\* the entries of blackListTypes that strings.Contains finds in typ
Hits(typ) == { i \in DOMAIN blackListTypes : Contains(typ, blackListTypes[i]) }

\* the first of them in the order of the list: where the loop of line 85 stops
FirstHit(typ) == CHOOSE i \in Hits(typ) : \A j \in Hits(typ) : i <= j

\* variant: the loop over blackListTypes runs before the admission of GET requests
rejectIfBlackListed_GetToo(r) ==
    LET params == Vars(r.Path)
    IN /\ request' = r
       /\ IF "type" \notin DOMAIN params THEN Admit
          ELSE IF Hits(params.type) # {} THEN Reject(blackListTypes[FirstHit(params.type)])
          ELSE Admit
       /\ UNCHANGED <<cacheOn, keyRet, getRet, hashRet, computed, dataVars, storeVars, callVars>>

\* lines 73-93: the handler rejectIfBlackListed returns, serving one request
rejectIfBlackListed(r) ==
    LET params == Vars(r.Path)
    IN /\ request' = r
       /\ IF "type" \notin DOMAIN params THEN Admit
          ELSE IF r.Method = MethodGet THEN Admit
          ELSE IF Hits(params.type) # {} THEN Reject(blackListTypes[FirstHit(params.type)])
          ELSE Admit
       /\ UNCHANGED <<cacheOn, keyRet, getRet, hashRet, computed, dataVars, storeVars, callVars>>

\* the store is not involved in routing
InitRouter ==
    /\ cacheOn = FALSE
    /\ crbCache = {}
    /\ rbCache = {}
    /\ rCache = {}
    /\ InitStore

\* lines 21-46: the router serves the requests that match a route, one at a time
NextRouter == \E r \in Requests : rejectIfBlackListed(r)

SpecRouter == InitRouter /\ [][NextRouter]_vars

\* the request has a type parameter that contains an entry of blackListTypes
HasBlackListedType(r) ==
    /\ "type" \in DOMAIN Vars(r.Path)
    /\ \E i \in DOMAIN blackListTypes : Contains(Vars(r.Path).type, blackListTypes[i])

Rejected == response.status = StatusBadRequest /\ nextCalls = 0
PassedOnce == response = NoResponse /\ nextCalls = 1

(* C23, as stated: every served request whose type parameter contains a     *)
(* blacklisted type got HTTP 400 and was not passed to the next handler,    *)
(* and every other served request was passed to the next handler once.      *)
C23_BlackListedTypeRejected ==
    (request # NoRequest)
      => IF HasBlackListedType(request) THEN Rejected ELSE PassedOnce

(* C23, amended: a served request got HTTP 400, naming the first entry of   *)
(* blackListTypes its type contains, and was not passed on, exactly when    *)
(* its method is not GET and its type parameter contains a blacklisted      *)
(* type; every other served request, a GET with a blacklisted type          *)
(* included, was passed to the next handler exactly once, nothing written.  *)
C23_NonGetBlackListedTypeRejected ==
    (request # NoRequest)
      => IF HasBlackListedType(request) /\ request.Method # MethodGet
         THEN /\ Rejected
              /\ \E i \in DOMAIN blackListTypes :
                    /\ Contains(Vars(request.Path).type, blackListTypes[i])
                    /\ \A j \in 1..(i - 1) :
                          ~Contains(Vars(request.Path).type, blackListTypes[j])
                    /\ response.body
                         = "routes with type: " \o blackListTypes[i] \o " are blacklisted\n"
         ELSE PassedOnce

C23_Witness ==
    /\ request.Method = "POST"
    /\ request.Path = <<"v1", "management.cattle.io.users", "ns", "name">>
    /\ response = [status |-> StatusBadRequest,
                   body |-> "routes with type: management.cattle.io.user are blacklisted\n"]
    /\ nextCalls = 0

====
